---- MODULE Spec2Model ----
(***************************************************************************)
(* The consume command of kaf (cmd/kaf/consume.go): one goroutine per      *)
(* partition resolves its start offset, attaches a partition consumer and  *)
(* renders every fetched record to stderr/stdout under one mutex.          *)
(*                                                                         *)
(* Byte strings are sequences of integers 0..255.  Time is in              *)
(* milliseconds.  Every goroutine step that touches shared state (offset,  *)
(* mu, wg, the two output streams, the process itself) is one action;      *)
(* purely local computation is folded into the action that ends it.  The   *)
(* output is kept per goroutine: two goroutines interleave their writes    *)
(* exactly when both are inside a block in the same state.                 *)
(***************************************************************************)
EXTENDS Integers, Sequences, FiniteSets, TLC

VARIABLES
    offsetFlag,   \* --offset flag
    follow,       \* --follow flag
    raw,          \* --raw flag
    schemaCache,  \* TRUE iff getSchemaCache() returned a non-nil cache
    partitions,   \* consumer.Partitions(topic)
    mainpc,       \* position of the Run goroutine
    spawned,      \* partitions whose goroutine has been started
    wg,           \* sync.WaitGroup counter
    mu,           \* set of goroutines holding the sync.Mutex
    offset,       \* the `offset` variable of Run, captured by every closure
    pc,           \* position of each partition goroutine
    followOffset, \* per goroutine: offsets.GetBlock(..).Offset - 1
    startOffset,  \* per goroutine: the offset handed to ConsumePartition
    elapsed,      \* per goroutine: ms spent inside getAvailableOffsetsRetry
    lastErr,      \* per goroutine: `err` of getAvailableOffsetsRetry is non-nil
    calls,        \* per goroutine: broker calls issued so far (history)
    delivered,    \* per partition: records received from pc.Messages()
    closed,       \* per partition: pc.Messages() has been closed
    cur,          \* per goroutine: the record being written
    out,          \* per goroutine: its writes to os.Stderr / os.Stdout, in order
    proc,         \* the process: running, returned, exited or panicked
    rendered      \* the last record rendered on its own, with its buffers

vars == <<offsetFlag, follow, raw, schemaCache, partitions, mainpc, spawned,
          wg, mu, offset, pc, followOffset, startOffset, elapsed, lastErr,
          calls, delivered, closed, cur, out, proc, rendered>>

config == <<offsetFlag, follow, raw, schemaCache, partitions>>

----------------------------------------------------------------------------
(* Bounds of the model *)

\* partitions of the topic are 0 .. n-1 with n <= MaxPartitions
MaxPartitions == 2

\* records one partition's fetch stream delivers at most
MaxRecords == 2

\* largest high watermark the leader reports
MaxWatermark == 3

\* duration of one failed GetAvailableOffsets round trip, in ms
RoundTrip == 250

\* the model stops counting time spent in the retry loop here, in ms
MaxElapsed == 750

----------------------------------------------------------------------------
(* Program constants *)

offsetsRetry == 500

OffsetNewest == -1

OffsetOldest == -2

OffsetFlags == {"oldest", "newest", "42"}

AllPartitions == 0 .. (MaxPartitions - 1)

----------------------------------------------------------------------------
(* Byte strings *)

\* Go's s[lo:hi] with 0-based lo, exclusive hi
Slice(s, lo, hi) == SubSeq(s, lo + 1, hi)

RECURSIVE BigEndian(_)
\* binary.BigEndian.Uint64 of the bytes s, most significant byte first
BigEndian(s) ==
    IF s = <<>> THEN 0
    ELSE BigEndian(SubSeq(s, 1, Len(s) - 1)) * 256 + s[Len(s)]

RECURSIVE FormatUint(_)
\* strconv.FormatUint(n, 10) as ASCII bytes
FormatUint(n) ==
    IF n < 10 THEN <<48 + n>>
    ELSE FormatUint(n \div 10) \o <<48 + (n % 10)>>

----------------------------------------------------------------------------
(* The decoding chain of one record, lines 129-175 *)

\* What schemaCache.DecodeMessage(b) may return.  The capability is opaque:
\* on success it yields the bytes unchanged or a textual form; on failure it
\* yields an error together with the input or with no bytes at all.
DecodeMessage(b) ==
    {[bytes |-> b, err |-> FALSE], [bytes |-> <<49>>, err |-> FALSE],
     [bytes |-> b, err |-> TRUE], [bytes |-> <<>>, err |-> TRUE]}

\* avroDecode(b), with dec the answer of the schema cache when one is asked
avroDecode(b, dec) ==
    IF schemaCache THEN dec ELSE [bytes |-> b, err |-> FALSE]

\* the bytes are a JSON document: here, a JSON number
IsJSON(b) ==
    /\ Len(b) > 0
    /\ \A i \in 1 .. Len(b) : b[i] \in 48 .. 57
    /\ (Len(b) > 1 => b[1] # 48)

\* prettyjson.Format(b): the coloured, indented document, or an error
prettyFormat(b) ==
    IF IsJSON(b)
    THEN [bytes |-> <<27>> \o b \o <<27>>, err |-> FALSE]
    ELSE [bytes |-> <<>>, err |-> TRUE]

\* keyfmt.Format falls back to the bytes themselves
formatKey(key) ==
    IF prettyFormat(key).err THEN key ELSE prettyFormat(key).bytes

\* The switch on hdr.Value[0].  h.Value is the slice, h.Tail the bytes that
\* follow it inside its backing array (a slice expression is checked against
\* the capacity, an index against the length).  2+hdr.Value[1] is a byte.
hdrDecode(h) ==
    LET v == h.Value
        backing == h.Value \o h.Tail
    IN  IF Len(v) = 0 THEN [panic |-> FALSE, text |-> <<>>]
        ELSE IF v[1] = 161 THEN
            IF Len(v) < 2 THEN [panic |-> TRUE, text |-> <<>>]
            ELSE LET hi == (2 + v[2]) % 256
                 IN  IF hi < 2 \/ hi > Len(backing)
                     THEN [panic |-> TRUE, text |-> <<>>]
                     ELSE [panic |-> FALSE, text |-> Slice(backing, 2, hi)]
        ELSE IF v[1] = 131 THEN
            IF 9 > Len(backing) THEN [panic |-> TRUE, text |-> <<>>]
            ELSE [panic |-> FALSE,
                  text |-> FormatUint(BigEndian(Slice(backing, 1, 9)))]
        ELSE [panic |-> FALSE, text |-> v]

\* the header loop printing its heading after the headers
hdrLinesHeadingLast(hs) ==
    [i \in 1 .. Len(hs) |-> <<"Header", hdrDecode(hs[i]).text>>]
    \o (IF Len(hs) > 0 THEN <<<<"Headers:", <<>>>>>> ELSE <<>>)

\* the lines the header loop prints into the tabwriter
hdrLines(hs) ==
    (IF Len(hs) > 0 THEN <<<<"Headers:", <<>>>>>> ELSE <<>>)
    \o [i \in 1 .. Len(hs) |-> <<"Header", hdrDecode(hs[i]).text>>]

avroErrLine == <<"could not decode Avro data", <<>>>>

\* One iteration of the message loop up to mu.Lock(): the stderr buffer and
\* dataToDisplay of record m, when the schema cache answers dv for the value
\* and dk for the key; asked lists the byte strings handed to the schema cache.
render(m, dv, dk) ==
    LET v == avroDecode(m.Value, dv)
        k == avroDecode(m.Key, dk)
        hasKey == Len(m.Key) > 0
        direct == (IF v.err THEN <<avroErrLine>> ELSE <<>>)
                  \o (IF ~raw /\ hasKey /\ k.err THEN <<avroErrLine>> ELSE <<>>)
        w == hdrLines(m.Headers)
             \o (IF hasKey THEN <<<<"Key:", formatKey(k.bytes)>>>> ELSE <<>>)
             \o << <<"Partition:", <<>>>>, <<"Offset:", <<>>>>,
                   <<"Timestamp:", <<>>>> >>
    IN  [panic  |-> ~raw /\ \E i \in 1 .. Len(m.Headers) :
                                hdrDecode(m.Headers[i]).panic,
         verr   |-> v.err,
         asked  |-> (IF schemaCache THEN <<m.Value>> ELSE <<>>)
                    \o (IF schemaCache /\ ~raw /\ hasKey
                        THEN <<m.Key>> ELSE <<>>),
         stderr |-> direct \o (IF raw THEN <<>> ELSE w),
         data   |-> IF ~raw /\ ~prettyFormat(v.bytes).err
                    THEN prettyFormat(v.bytes).bytes
                    ELSE v.bytes]

\* the records a fetch stream delivers to a partition goroutine
StreamRecords ==
    {[Value |-> <<55>>, Key |-> <<>>, Headers |-> <<>>],
     [Value |-> <<0, 1>>, Key |-> <<107>>,
      Headers |-> <<[Value |-> <<161, 1, 104>>, Tail |-> <<>>]>>],
     [Value |-> <<>>, Key |-> <<>>,
      Headers |-> <<[Value |-> <<161>>, Tail |-> <<>>]>>]}

\* the records rendered on their own
RenderValues == {<<>>, <<55>>, <<0, 1>>, <<123>>}

RenderKeys == {<<>>, <<107>>, <<55>>}

\* a header value whose length byte is 254 and which carries its 254 bytes
LongHeader == <<161, 254>> \o [i \in 1 .. 254 |-> 97]

RenderHeaders ==
    {<<>>, <<[Value |-> <<161, 1, 104>>, Tail |-> <<>>]>>,
     <<[Value |-> <<104>>, Tail |-> <<>>],
       [Value |-> <<>>, Tail |-> <<>>]>>,
     <<[Value |-> <<161>>, Tail |-> <<>>]>>,
     <<[Value |-> <<161, 2, 104>>, Tail |-> <<>>]>>,
     <<[Value |-> <<161, 2, 104>>, Tail |-> <<105>>]>>,
     <<[Value |-> <<131, 0>>, Tail |-> <<>>]>>,
     <<[Value |-> <<131, 0, 0, 0, 0, 0, 0, 1, 2>>, Tail |-> <<>>]>>,
     <<[Value |-> LongHeader, Tail |-> <<>>]>>}

RenderRecords ==
    [Value : RenderValues, Key : RenderKeys, Headers : RenderHeaders]

----------------------------------------------------------------------------
(* Initial state: the flags as parsed, the topic as the broker holds it *)

NoRecord == [rec |-> 0, diag |-> FALSE]

NoRender == [done |-> FALSE]

Init ==
    /\ offsetFlag \in OffsetFlags
    /\ follow \in BOOLEAN
    /\ raw \in BOOLEAN
    /\ schemaCache \in BOOLEAN
    /\ partitions \in {0 .. (n - 1) : n \in 0 .. MaxPartitions}
    /\ mainpc = "start"
    /\ spawned = {}
    /\ wg = 0
    /\ mu = {}
    /\ offset = 0
    /\ pc = [p \in AllPartitions |-> "idle"]
    /\ followOffset = [p \in AllPartitions |-> 0]
    /\ startOffset = [p \in AllPartitions |-> 0]
    /\ elapsed = [p \in AllPartitions |-> 0]
    /\ lastErr = [p \in AllPartitions |-> FALSE]
    /\ calls = [p \in AllPartitions |-> {}]
    /\ delivered = [p \in AllPartitions |-> 0]
    /\ closed = [p \in AllPartitions |-> FALSE]
    /\ cur = [p \in AllPartitions |-> NoRecord]
    /\ out = [p \in AllPartitions |-> <<>>]
    /\ proc = "running"
    /\ rendered = NoRender

----------------------------------------------------------------------------
(* errorExit: the message goes to stderr, then the process exits *)

Event(rec, kind) == [rec |-> rec, kind |-> kind]

\* fmt.Fprintf(os.Stderr, format, a...) of errorExit, by goroutine p
errorExit(p) ==
    /\ out' = [out EXCEPT ![p] = Append(@, Event(0, "fatal"))]
    /\ pc' = [pc EXCEPT ![p] = "exit"]

\* os.Exit(1) of errorExit
Exit ==
    /\ proc = "running"
    /\ mainpc = "exit" \/ \E p \in partitions : pc[p] = "exit"
    /\ proc' = "exited"
    /\ UNCHANGED <<config, mainpc, spawned, wg, mu, offset, pc, followOffset,
                   elapsed, lastErr, calls, delivered, closed, cur, out,
                   rendered, startOffset>>

----------------------------------------------------------------------------
(* The Run goroutine, lines 66-96 and 186 *)

\* the switch on offsetFlag
OffsetOfFlag(flag) ==
    CASE flag = "oldest" -> OffsetOldest
      [] flag = "newest" -> OffsetNewest
      [] OTHER -> OffsetNewest

\* lines 68-94: resolve the flag, create the consumer, list the partitions;
\* either of the two calls may fail, and Run then calls errorExit
Start ==
    /\ proc = "running"
    /\ mainpc = "start"
    /\ offset' = OffsetOfFlag(offsetFlag)
    /\ \E ok \in BOOLEAN : mainpc' = IF ok THEN "spawn" ELSE "exit"
    /\ UNCHANGED <<config, spawned, wg, mu, pc, followOffset, elapsed,
                   lastErr, calls, delivered, closed, cur, out, proc,
                   rendered, startOffset>>

\* a loop that starts the goroutine without wg.Add(1)
wgAddMissing(n) == n

\* the WaitGroup counter after wg.Add(1)
wgAdd(n) == n + 1

\* one iteration of the loop over partitions: wg.Add(1); go func(partition)
Spawn(p) ==
    /\ proc = "running"
    /\ mainpc = "spawn"
    /\ p \in partitions \ spawned
    /\ \A q \in partitions \ spawned : p <= q
    /\ wg' = wgAdd(wg)
    /\ spawned' = spawned \cup {p}
    /\ pc' = [pc EXCEPT ![p] = "leader"]
    /\ UNCHANGED <<config, mainpc, mu, offset, followOffset, elapsed, lastErr,
                   calls, delivered, closed, cur, out, proc, rendered, startOffset>>

\* wg.Wait() returns and Run ends
Wait ==
    /\ proc = "running"
    /\ mainpc = "spawn"
    /\ spawned = partitions
    /\ wg = 0
    /\ mainpc' = "returned"
    /\ proc' = "returned"
    /\ UNCHANGED <<config, spawned, wg, mu, offset, pc, followOffset, elapsed,
                   lastErr, calls, delivered, closed, cur, out, rendered, startOffset>>

----------------------------------------------------------------------------
(* The goroutine of partition p: offset resolution, lines 103-126 *)

\* client.Leader(topic, partition)
Leader(p) ==
    /\ proc = "running"
    /\ pc[p] = "leader"
    /\ calls' = [calls EXCEPT ![p] = @ \cup {"Leader"}]
    /\ \E ok \in BOOLEAN :
        IF ok
        THEN /\ pc' = [pc EXCEPT ![p] = "probe"]
             /\ out' = out
        ELSE errorExit(p)
    /\ UNCHANGED <<config, mainpc, spawned, wg, mu, offset, followOffset,
                   elapsed, lastErr, delivered, closed, cur, proc, rendered, startOffset>>

\* the assignment of line 119 made whatever follow is
resolveOffsetAlways(off, fo) == IF fo > 0 THEN fo ELSE off

\* lines 118-119: the value of the shared offset after
\* if follow && followOffset > 0 { offset = followOffset }
resolveOffset(off, fo) == IF follow /\ fo > 0 THEN fo ELSE off

\* where the goroutine goes after line 118: to the notice of line 120 or
\* straight to ConsumePartition
afterResolve(fo) == IF follow /\ fo > 0 THEN "notice" ELSE "consume"

\* getAvailableOffsetsRetry, the default branch of the select: one
\* ldr.GetAvailableOffsets(req).  A success returns to Run, which computes
\* followOffset (line 116) and may assign the shared offset (lines 118-119);
\* a failure keeps err and loops.
ProbeAttempt(p) ==
    /\ proc = "running"
    /\ pc[p] = "probe"
    /\ calls' = [calls EXCEPT ![p] = @ \cup {"GetAvailableOffsets"}]
    /\ \/ \E h \in 0 .. MaxWatermark :
            /\ followOffset' = [followOffset EXCEPT ![p] = h - 1]
            /\ offset' = resolveOffset(offset, h - 1)
            /\ pc' = [pc EXCEPT ![p] = afterResolve(h - 1)]
            /\ elapsed' = [elapsed EXCEPT ![p] = 0]
            /\ lastErr' = [lastErr EXCEPT ![p] = FALSE]
       \/ /\ elapsed[p] + RoundTrip <= MaxElapsed
          /\ elapsed' = [elapsed EXCEPT ![p] = @ + RoundTrip]
          /\ lastErr' = [lastErr EXCEPT ![p] = TRUE]
          /\ UNCHANGED <<followOffset, offset, pc>>
    /\ UNCHANGED <<config, mainpc, spawned, wg, mu, delivered, closed, cur,
                   out, proc, rendered, startOffset>>

\* getAvailableOffsetsRetry, the time.After(d) branch of the select.  Every
\* iteration makes a new timer, so the branch is ready only if the goroutine
\* was stalled for d between making the timer and polling it.  It returns
\* (nil, err): Run exits on a non-nil err and dereferences the nil response
\* otherwise.
ProbeTimeout(p) ==
    /\ proc = "running"
    /\ pc[p] = "probe"
    /\ elapsed' = [elapsed EXCEPT ![p] = 0]
    /\ lastErr' = [lastErr EXCEPT ![p] = FALSE]
    /\ IF lastErr[p]
       THEN /\ errorExit(p)
            /\ proc' = proc
       ELSE /\ pc' = [pc EXCEPT ![p] = "panic"]
            /\ proc' = "panicked"
            /\ out' = out
    /\ UNCHANGED <<config, mainpc, spawned, wg, mu, offset, followOffset,
                   calls, delivered, closed, cur, rendered, startOffset>>

\* line 120: the "Starting on partition" notice, written to os.Stderr
Notice(p) ==
    /\ proc = "running"
    /\ pc[p] = "notice"
    /\ out' = [out EXCEPT ![p] = Append(@, Event(0, "notice"))]
    /\ pc' = [pc EXCEPT ![p] = "consume"]
    /\ UNCHANGED <<config, mainpc, spawned, wg, mu, offset, followOffset,
                   elapsed, lastErr, calls, delivered, closed, cur, proc,
                   rendered, startOffset>>

\* ConsumePartition whose failure is reported and ends only this goroutine
ConsumePartitionLogOnly(p) ==
    /\ proc = "running"
    /\ pc[p] = "consume"
    /\ followOffset' = [followOffset EXCEPT ![p] = 0]
    /\ calls' = [calls EXCEPT ![p] = @ \cup {"ConsumePartition"}]
    /\ startOffset' = [startOffset EXCEPT ![p] = offset]
    /\ \E ok \in BOOLEAN :
        IF ok
        THEN /\ pc' = [pc EXCEPT ![p] = "fetch"]
             /\ out' = out
             /\ wg' = wg
        ELSE /\ out' = [out EXCEPT ![p] = Append(@, Event(0, "fatal"))]
             /\ pc' = [pc EXCEPT ![p] = "done"]
             /\ wg' = wg - 1
    /\ UNCHANGED <<config, mainpc, spawned, mu, offset, elapsed, lastErr,
                   delivered, closed, cur, proc, rendered>>

\* lines 123-126: consumer.ConsumePartition(topic, partition, offset); the
\* offset handed over is the shared variable as it is now; followOffset is
\* not read again
ConsumePartition(p) ==
    /\ proc = "running"
    /\ pc[p] = "consume"
    /\ followOffset' = [followOffset EXCEPT ![p] = 0]
    /\ calls' = [calls EXCEPT ![p] = @ \cup {"ConsumePartition"}]
    /\ startOffset' = [startOffset EXCEPT ![p] = offset]
    /\ \E ok \in BOOLEAN :
        IF ok
        THEN /\ pc' = [pc EXCEPT ![p] = "fetch"]
             /\ out' = out
        ELSE errorExit(p)
    /\ UNCHANGED <<config, mainpc, spawned, wg, mu, offset, elapsed, lastErr,
                   delivered, closed, cur, proc, rendered>>

----------------------------------------------------------------------------
(* The fetch stream of partition p: pc.Messages() *)

Attached(p) == pc[p] \in {"fetch", "lock", "wstderr", "wstdout", "wnewline"}

\* the connection is torn down from outside: the channel is closed
CloseStream(p) ==
    /\ proc = "running"
    /\ Attached(p)
    /\ ~closed[p]
    /\ closed' = [closed EXCEPT ![p] = TRUE]
    /\ UNCHANGED <<config, mainpc, spawned, wg, mu, offset, pc, followOffset,
                   elapsed, lastErr, calls, delivered, cur, out, proc,
                   rendered, startOffset>>

----------------------------------------------------------------------------
(* The goroutine of partition p: the message loop, lines 128-183 *)

\* a loop that walks the delivered records from the newest to the oldest
NextMessageReversed(d) == MaxRecords - d

\* for msg := range pc.Messages(): the channel hands over the records in the
\* order the stream delivers them; d records were received before
NextMessage(d) == d + 1

\* lines 128-175: receive one record and render it into the local buffers;
\* an index or slice out of range in the header switch panics
Receive(p) ==
    /\ proc = "running"
    /\ pc[p] = "fetch"
    /\ ~closed[p]
    /\ delivered[p] < MaxRecords
    /\ delivered' = [delivered EXCEPT ![p] = @ + 1]
    /\ \E m \in StreamRecords :
       \E dv \in DecodeMessage(m.Value), dk \in DecodeMessage(m.Key) :
         LET r == render(m, dv, dk)
         IN  IF r.panic
             THEN /\ cur' = [cur EXCEPT ![p] =
                                [rec |-> NextMessage(delivered[p]),
                                 diag |-> FALSE]]
                  /\ pc' = [pc EXCEPT ![p] = "panic"]
                  /\ proc' = "panicked"
             ELSE /\ cur' = [cur EXCEPT ![p] =
                                [rec |-> NextMessage(delivered[p]),
                                 diag |-> r.stderr # <<>>]]
                  /\ pc' = [pc EXCEPT ![p] = "lock"]
                  /\ proc' = proc
    /\ UNCHANGED <<config, mainpc, spawned, wg, mu, offset, followOffset,
                   elapsed, lastErr, calls, closed, out, rendered, startOffset>>

\* mu.Lock() that does not wait for the holder
LockNoWait(p) ==
    /\ proc = "running"
    /\ pc[p] = "lock"
    /\ mu' = mu \cup {p}
    /\ pc' = [pc EXCEPT ![p] = "wstderr"]
    /\ UNCHANGED <<config, mainpc, spawned, wg, offset, followOffset, elapsed,
                   lastErr, calls, delivered, closed, cur, out, proc,
                   rendered, startOffset>>

\* line 177: mu.Lock()
Lock(p) ==
    /\ proc = "running"
    /\ pc[p] = "lock"
    /\ mu = {}
    /\ mu' = mu \cup {p}
    /\ pc' = [pc EXCEPT ![p] = "wstderr"]
    /\ UNCHANGED <<config, mainpc, spawned, wg, offset, followOffset, elapsed,
                   lastErr, calls, delivered, closed, cur, out, proc,
                   rendered, startOffset>>

\* line 178: stderr.WriteTo(os.Stderr); an empty buffer writes nothing
WriteStderr(p) ==
    /\ proc = "running"
    /\ pc[p] = "wstderr"
    /\ out' = IF cur[p].diag
              THEN [out EXCEPT ![p] = Append(@, Event(cur[p].rec, "stderr"))]
              ELSE out
    /\ pc' = [pc EXCEPT ![p] = "wstdout"]
    /\ UNCHANGED <<config, mainpc, spawned, wg, mu, offset, followOffset,
                   elapsed, lastErr, calls, delivered, closed, cur, proc,
                   rendered, startOffset>>

\* line 179: colorable.NewColorableStdout().Write(dataToDisplay)
WriteStdout(p) ==
    /\ proc = "running"
    /\ pc[p] = "wstdout"
    /\ out' = [out EXCEPT ![p] = Append(@, Event(cur[p].rec, "stdout"))]
    /\ pc' = [pc EXCEPT ![p] = "wnewline"]
    /\ UNCHANGED <<config, mainpc, spawned, wg, mu, offset, followOffset,
                   elapsed, lastErr, calls, delivered, closed, cur, proc,
                   rendered, startOffset>>

\* the end of a block that keeps the mutex locked
WriteNewlineNoUnlock(p) ==
    /\ proc = "running"
    /\ pc[p] = "wnewline"
    /\ out' = [out EXCEPT ![p] = Append(@, Event(cur[p].rec, "newline"))]
    /\ mu' = mu
    /\ cur' = [cur EXCEPT ![p] = NoRecord]
    /\ pc' = [pc EXCEPT ![p] = "fetch"]
    /\ UNCHANGED <<config, mainpc, spawned, wg, offset, followOffset, elapsed,
                   lastErr, calls, delivered, closed, proc, rendered, startOffset>>

\* lines 180-181: fmt.Print("\n"); mu.Unlock(); back to the head of the loop
WriteNewline(p) ==
    /\ proc = "running"
    /\ pc[p] = "wnewline"
    /\ out' = [out EXCEPT ![p] = Append(@, Event(cur[p].rec, "newline"))]
    /\ mu' = mu \ {p}
    /\ cur' = [cur EXCEPT ![p] = NoRecord]
    /\ pc' = [pc EXCEPT ![p] = "fetch"]
    /\ UNCHANGED <<config, mainpc, spawned, wg, offset, followOffset, elapsed,
                   lastErr, calls, delivered, closed, proc, rendered, startOffset>>

\* the WaitGroup counter after wg.Done()
wgDone(n) == n - 1

\* line 183: the channel is closed and drained, the loop ends; wg.Done()
Done(p) ==
    /\ proc = "running"
    /\ pc[p] = "fetch"
    /\ closed[p]
    /\ wg' = wgDone(wg)
    /\ pc' = [pc EXCEPT ![p] = "done"]
    /\ UNCHANGED <<config, mainpc, spawned, mu, offset, followOffset, elapsed,
                   lastErr, calls, delivered, closed, cur, out, proc,
                   rendered, startOffset>>

----------------------------------------------------------------------------

Worker(p) ==
    \/ Leader(p) \/ ProbeAttempt(p) \/ ProbeTimeout(p) \/ Notice(p)
    \/ ConsumePartition(p) \/ Receive(p) \/ Lock(p) \/ WriteStderr(p)
    \/ WriteStdout(p) \/ WriteNewline(p) \/ Done(p)

Next ==
    \/ Start
    \/ Wait
    \/ Exit
    \/ \E p \in AllPartitions : Spawn(p)
    \/ \E p \in AllPartitions : Worker(p)
    \/ \E p \in AllPartitions : CloseStream(p)

Spec == Init /\ [][Next]_vars

\* The Go scheduler runs every runnable goroutine: Run and each partition
\* goroutine keep taking steps while they can.  Nothing is assumed of the
\* broker, of the streams being closed, or of calls succeeding.
Fairness ==
    /\ WF_vars(Start)
    /\ WF_vars(Wait)
    /\ WF_vars(Exit)
    /\ \A p \in AllPartitions : WF_vars(Spawn(p))
    /\ \A p \in AllPartitions : WF_vars(Worker(p))

FairSpec == Spec /\ Fairness

----------------------------------------------------------------------------
(* The decoding chain on its own: one record, rendered under the flags *)

RenderStep ==
    /\ ~rendered.done
    /\ \E m \in RenderRecords :
       \E dv \in DecodeMessage(m.Value), dk \in DecodeMessage(m.Key) :
          rendered' = [done |-> TRUE, m |-> m, dv |-> dv, dk |-> dk,
                       res |-> render(m, dv, dk)]
    /\ UNCHANGED <<config, mainpc, spawned, wg, mu, offset, pc, followOffset,
                   startOffset, elapsed, lastErr, calls, delivered, closed,
                   cur, out, proc>>

RenderNext == RenderStep

RenderSpec == Init /\ [][RenderNext]_vars

----------------------------------------------------------------------------
(* Reading the output *)

\* the kinds of write goroutine p has made for its record r, in order
Writes(p, r) ==
    SelectSeq([i \in 1 .. Len(out[p]) |->
                  IF out[p][i].rec = r THEN out[p][i].kind ELSE "other"],
              LAMBDA k : k # "other")

\* how often the payload of record r of partition p was written
Payloads(p, r) ==
    Cardinality({i \in 1 .. Len(out[p]) :
                    out[p][i].rec = r /\ out[p][i].kind = "stdout"})

\* some record of p has its first write out and its last write still to come
BlockOpen(p) ==
    \E r \in 1 .. MaxRecords :
        /\ Writes(p, r) # <<>>
        /\ Writes(p, r)[Len(Writes(p, r))] # "newline"

\* goroutine p holds a rendered record it has yet to finish writing
InFlight(p) == pc[p] \in {"lock", "wstderr", "wstdout", "wnewline"}

\* goroutine p has reported a fatal error
Failed(p) == \E i \in 1 .. Len(out[p]) : out[p][i].kind = "fatal"

\* goroutine p hands its start offset to ConsumePartition in this step
Starts(p) == pc[p] = "consume" /\ pc'[p] # "consume"

----------------------------------------------------------------------------
(* C1 *)

\* C1: the blocks of two records of different partitions never interleave:
\* no two partitions are inside a block (first write made, last write not
\* yet made) at the same time, so no write of one block falls between the
\* first and the last write of another.
C1_AtomicBlocks ==
    \A p, q \in partitions : p # q => ~(BlockOpen(p) /\ BlockOpen(q))

\* one goroutine is inside its block while another holds a rendered record
\* and waits for the mutex
C1_Witness ==
    \E p, q \in partitions :
        p # q /\ BlockOpen(p) /\ pc[p] = "wnewline" /\ pc[q] = "lock"

----------------------------------------------------------------------------
(* C2 *)

\* C2: the retry loop of getAvailableOffsetsRetry is bounded by its budget:
\* a goroutine is not still inside the loop once offsetsRetry plus one round
\* trip have gone by since it entered.
C2_BoundedProbe ==
    \A p \in partitions :
        pc[p] = "probe" => elapsed[p] < offsetsRetry + RoundTrip

----------------------------------------------------------------------------
(* C3 *)

\* C3: with follow set, a partition whose probed high watermark H gives
\* H - 1 > 0 hands exactly its own H - 1 to ConsumePartition.
C3_OwnFollowOffset ==
    [][\A p \in partitions :
          (Starts(p) /\ follow /\ followOffset[p] > 0)
              => startOffset'[p] = followOffset[p]]_vars

----------------------------------------------------------------------------
(* C4 *)

\* C4: without follow no goroutine looks up the leader or probes the high
\* watermark; with follow every goroutine that reaches ConsumePartition has
\* probed.
C4_NoProbeOutsideFollow ==
    \A p \in partitions :
        /\ ~follow => calls[p] \cap {"Leader", "GetAvailableOffsets"} = {}
        /\ (follow /\ "ConsumePartition" \in calls[p])
              => "GetAvailableOffsets" \in calls[p]

----------------------------------------------------------------------------
(* C5 *)

\* C5: with follow set, a partition whose high watermark - 1 is not positive
\* hands the Newest sentinel to ConsumePartition, whatever --offset says.
C5_FollowFallback ==
    [][\A p \in partitions :
          (Starts(p) /\ follow /\ followOffset[p] <= 0)
              => startOffset'[p] = OffsetNewest]_vars

----------------------------------------------------------------------------
(* C6 *)

\* C6: no record is dropped or duplicated: every record a goroutine has
\* received has had its payload written exactly once, except the record the
\* goroutine still holds for writing, whose payload is written at most once.
C6_NoDropNoDup ==
    \A p \in partitions : \A r \in 1 .. delivered[p] :
        \/ Payloads(p, r) = 1
        \/ r = delivered[p] /\ InFlight(p) /\ Payloads(p, r) = 0

----------------------------------------------------------------------------
(* C7 *)

\* C7: when the schema decoder fails on a record's value, the payload shown
\* is the record's raw value and the stderr buffer holds a diagnostic.
C7_DecodeFailureKeepsRaw ==
    (rendered.done /\ rendered.res.verr)
        => /\ rendered.res.data = rendered.m.Value
           /\ rendered.res.stderr # <<>>

----------------------------------------------------------------------------
(* C8 *)

\* C8: a partition's records are written in the order its stream delivered
\* them: in the output of one goroutine no write of an earlier record comes
\* after a write of a later record.
C8_PartitionOrder ==
    \A p \in partitions : \A i, j \in 1 .. Len(out[p]) :
        (i < j /\ out[p][i].rec > 0 /\ out[p][j].rec > 0)
            => out[p][i].rec <= out[p][j].rec

\* one partition has written two records in full while another partition
\* has written a record as well
C8_Witness ==
    \E p, q \in partitions :
        /\ p # q
        /\ Writes(p, 1) # <<>> /\ Payloads(p, 2) = 1
        /\ Payloads(q, 1) = 1

----------------------------------------------------------------------------
(* C9 *)

\* C9: Run returns only when every partition goroutine has finished, and
\* once Run is past its setup and every partition's stream is closed, Run
\* returns; with no partitions that is at once.
C9_JoinOfWorkers ==
    /\ [](proc = "returned" => \A p \in partitions : pc[p] = "done")
    /\ (mainpc = "spawn" /\ \A p \in partitions : closed[p])
          ~> (proc = "returned")

\* Run has returned after two partitions wrote records and were closed
C9_Witness ==
    /\ proc = "returned"
    /\ Cardinality(partitions) > 1
    /\ \A p \in partitions : Payloads(p, 1) = 1

----------------------------------------------------------------------------
(* C10 *)

----------------------------------------------------------------------------
(* C11: malformed headers never raise *)

\* C11: every header value, truncated ones included (first byte 161 with no
\* length byte or fewer bytes than the length byte announces, first byte 131
\* with fewer than 8 bytes after it), is rendered without a panic, and a
\* truncated value is rendered as its own bytes.
C11_MalformedHeadersNeverRaise ==
    (rendered.done /\ ~raw) =>
        /\ ~rendered.res.panic
        /\ \A i \in 1 .. Len(rendered.m.Headers) :
              LET v == rendered.m.Headers[i].Value
                  truncated ==
                      /\ Len(v) > 0
                      /\ \/ v[1] = 161 /\ (Len(v) < 2 \/ Len(v) < 2 + v[2])
                         \/ v[1] = 131 /\ Len(v) < 9
              IN  truncated => hdrDecode(rendered.m.Headers[i]).text = v

----------------------------------------------------------------------------
(* C12: well-formed header decode *)

\* C12: the text of a header value v is the bytes v[2..2+v[1]) when v[0] is
\* 161 and at least v[1] bytes follow the length byte, the decimal text of
\* the big-endian unsigned integer in v[1..9) when v[0] is 131 and 8 bytes
\* follow, v itself for any other first byte, and empty for an empty v.
C12_WellFormedHeaderDecode ==
    (rendered.done /\ ~raw) =>
        \A i \in 1 .. Len(rendered.m.Headers) :
            LET v == rendered.m.Headers[i].Value
                d == hdrDecode(rendered.m.Headers[i])
            IN  /\ Len(v) = 0 => (~d.panic /\ d.text = <<>>)
                /\ (Len(v) >= 2 /\ v[1] = 161 /\ Len(v) >= 2 + v[2]) =>
                       (~d.panic /\ d.text = SubSeq(v, 3, 2 + v[2]))
                /\ (Len(v) >= 9 /\ v[1] = 131) =>
                       (~d.panic
                        /\ d.text = FormatUint(BigEndian(SubSeq(v, 2, 9))))
                /\ (Len(v) > 0 /\ v[1] \notin {161, 131}) =>
                       (~d.panic /\ d.text = v)

----------------------------------------------------------------------------
(* C13: raw mode suppresses diagnostics *)

\* C13: when raw is set, no record, not even one whose value fails schema
\* decoding, has anything written to the diagnostics stream: a record's
\* writes are its payload and the newline after it, nothing else.
C13_RawSuppressesDiagnostics ==
    raw => \A p \in AllPartitions : \A i \in 1 .. Len(out[p]) :
               out[p][i].rec > 0 => out[p][i].kind \in {"stdout", "newline"}

----------------------------------------------------------------------------
(* C14: the decoder is invoked only on non-empty bytes *)

\* C14: the schema cache is asked to decode a value or a key only when one
\* is configured and the bytes are non-empty; an empty value is never handed
\* to it and never yields a decode diagnostic.
C14_DecoderOnlyOnNonEmpty ==
    rendered.done =>
        /\ (~schemaCache => rendered.res.asked = <<>>)
        /\ \A i \in 1 .. Len(rendered.res.asked) :
              rendered.res.asked[i] # <<>>
        /\ (rendered.m.Value = <<>> => avroErrLine \notin
               {rendered.res.stderr[i] : i \in 1 .. Len(rendered.res.stderr)})

----------------------------------------------------------------------------
(* C15: the probe outcome is never empty *)

\* C15: getAvailableOffsetsRetry returns a response with no error, or an
\* error: a goroutine leaves the retry loop either with a response (and goes
\* on to the notice or to ConsumePartition) or with an error (and Run exits
\* on it); it never leaves with neither.
C15_ProbeOutcomeNeverEmpty ==
    [][\A p \in partitions :
          (pc[p] = "probe" /\ pc'[p] # "probe")
              => pc'[p] \in {"notice", "consume", "exit"}]_vars

----------------------------------------------------------------------------
(* C16: rendering order within one record *)

\* C16: outside raw mode the diagnostic block of a record lists its header
\* lines (if it has headers), then its key line (if the key is non-empty),
\* then partition, offset and timestamp, in that order, and the block is
\* written before the record's payload.
C16_RenderingOrder ==
    ~raw =>
        /\ \A p \in AllPartitions : \A r \in 1 .. delivered[p] :
              \/ Writes(p, r) = <<>>
              \/ Writes(p, r) = <<"stderr">>
              \/ Writes(p, r) = <<"stderr", "stdout">>
              \/ Writes(p, r) = <<"stderr", "stdout", "newline">>
        /\ \A m \in StreamRecords :
           \A dv \in DecodeMessage(m.Value), dk \in DecodeMessage(m.Key) :
              LET res == render(m, dv, dk)
                  tags == [i \in 1 .. Len(res.stderr) |-> res.stderr[i][1]]
                  block == SelectSeq(tags, LAMBDA t : t # avroErrLine[1])
              IN  ~res.panic =>
                    block = (IF Len(m.Headers) > 0
                             THEN <<"Headers:">> ELSE <<>>)
                            \o [i \in 1 .. Len(m.Headers) |-> "Header"]
                            \o (IF Len(m.Key) > 0 THEN <<"Key:">> ELSE <<>>)
                            \o <<"Partition:", "Offset:", "Timestamp:">>

\* outside raw mode a record went out whole: block, payload, newline
C16_Witness ==
    /\ ~raw
    /\ \E p \in AllPartitions : \E r \in 1 .. delivered[p] :
          Writes(p, r) = <<"stderr", "stdout", "newline">>

----------------------------------------------------------------------------
(* C17: the mutex guards every output write *)

\* C17: every write a partition goroutine makes to stderr or stdout (a
\* record's diagnostics, its payload, the "Starting on partition" notice) is
\* made while it holds mu, so that nothing lands between the diagnostics and
\* the payload of a record of another goroutine.
C17_MutexGuardsEveryWrite ==
    [][\A p \in partitions :
          (Len(out'[p]) > Len(out[p])
           /\ out'[p][Len(out'[p])].kind # "fatal")
              => (mu = {p} /\ \A q \in partitions \ {p} : ~BlockOpen(q))]_vars

----------------------------------------------------------------------------
(* C18: no partial block on abort *)

\* C18: however the process ends, the exit on a fatal setup error of another
\* partition's goroutine included, a record whose diagnostics block has been
\* written to stderr also has its payload written to stdout.
C18_NoPartialBlockOnAbort ==
    proc # "running" =>
        \A p \in AllPartitions : \A r \in 1 .. delivered[p] :
            (\E i \in 1 .. Len(out[p]) :
                 out[p][i].rec = r /\ out[p][i].kind = "stderr")
                => Payloads(p, r) > 0

----------------------------------------------------------------------------
(* C19: the lock never blocks progress *)

----------------------------------------------------------------------------
(* C20: without follow the probe result changes nothing *)

\* C20: when follow is not set, every partition starts fetching at the
\* sentinel the --offset flag selects (OffsetOldest for "oldest",
\* OffsetNewest for "newest" and for every other value), the shared offset
\* is not written once goroutines are spawned, and the probed high watermark
\* has no effect on the offset a partition starts at.
C20_NoFollowNoEffect ==
    [][~follow =>
         LET sentinel == IF offsetFlag = "oldest" THEN OffsetOldest
                         ELSE OffsetNewest
         IN  /\ mainpc # "start" => (offset = sentinel /\ offset' = offset)
             /\ \A p \in AllPartitions :
                   "ConsumePartition" \in calls'[p]
                       => startOffset'[p] = sentinel]_vars

\* follow is not set, a partition has probed a high watermark of 2 or more
\* and is about to start, and the shared offset is still the sentinel
C20_Witness ==
    /\ ~follow
    /\ \E p \in AllPartitions :
          /\ pc[p] = "consume"
          /\ followOffset[p] > 0
          /\ offset \in {OffsetOldest, OffsetNewest}

====
